---- MODULE Spec2Model ----
(***************************************************************************)
(* Request-scoped cache of the System_Settings record, dojo/middleware.py. *)
(*                                                                         *)
(* A worker is a thread: DojoSytemSettingsMiddleware._thread_local holds   *)
(* at most one System_Settings instance per thread.  A unit of work is one *)
(* pass through DojoSytemSettingsMiddleware.__call__: load(), the wrapped  *)
(* get_response(request), cleanup().  While get_response runs, the request *)
(* handler reads the settings through System_Settings_Manager.get, may     *)
(* save the record (post_save is connected to cleanup) and may raise, in   *)
(* which case the framework calls process_exception and get_response still *)
(* returns (the error response) to __call__.                               *)
(*                                                                         *)
(* Every instance built by get_from_db is a new object: an instance is     *)
(* modelled as its content together with the thread and the request that   *)
(* fetched it, and a result says whether the call queried the store, so    *)
(* that "the same snapshot" and "an equal value" are told apart.           *)
(*                                                                         *)
(* LoginRequiredMiddleware shares no state with the cache: it is the       *)
(* second specification, SpecLogin, over the variable login.               *)
(***************************************************************************)
EXTENDS Integers, FiniteSets, Sequences, TLC

\* ---------------------------------------------------------------- bounds
MaxVal == 2
\* the longest request path, in tokens
MaxLen == 3

\* the threads that serve requests; a thread-local has one slot per thread.
\* Two threads interleave a writer with a reader; the invariants below hold
\* with a third thread as well.
Workers == {"w1", "w2"}
NoWorker == "none"
\* contents a saved System_Settings row can have
Vals == 1..MaxVal

\* ------------------------------------------------------------ the values
\* the content of System_Settings(): a new, unsaved, default-valued instance
DefaultVal == 0

\* An instance: its content, the thread whose fetch built it and the value of
\* that thread's request bit (seq) at the time.
Instance(v, w, n) == [val |-> v, by |-> w, unit |-> n]

\* no instance: the attribute system_settings is not set / None
NoObj == Instance(-1, NoWorker, 0)

\* what the fetch of the row can raise
FetchErrors == {"StoreUnavailable", "RecordNotFound", "OtherError"}
DbStates == {"ok"} \cup FetchErrors

\* what save() can raise
WriteErrors == {"ValidationError", "StoreUnavailable"}

VARIABLES
    store,      \* committed content of the System_Settings row
    pending,    \* pending[w]: <<v>> if thread w has saved v in a transaction
                \* that is still open, else << >>
    dbState,    \* "ok", or the error a fetch of the row raises now
    cache,      \* cache[w]: _thread_local.system_settings of thread w, or NoObj
    pc,         \* pc[w]: "idle" (outside __call__) or "handler" (in get_response)
    seq,        \* seq[w]: the number of requests thread w has completed, modulo
                \* 2: it tells the current request of w from the one before
    unit,       \* unit[w]: what happened in w's current (or last) request
    last,       \* the operation performed by the last step
    login       \* LoginRequiredMiddleware: the LOGIN_EXEMPT_URLS setting, the
                \* request in hand and what __call__ did with it

vars == <<store, pending, dbState, cache, pc, seq, unit, last, login>>

\* loads, ends, excs: how often load, the cleanup of __call__ and
\* process_exception ran; wrote: a save returned (post_save was sent);
\* loadObj: what load fetched
NoUnit == [loads |-> 0, ends |-> 0, excs |-> 0, wrote |-> FALSE, loadObj |-> NoObj]

\* a result: the error raised ("none": returned), the instance returned, and
\* whether the call queried the store
Result(e, obj, q) == [exc |-> e, obj |-> obj, fetched |-> q]
NoRes == Result("none", NoObj, FALSE)

\* an operation: the thread, the call, its result, and the entries before it
Op(w, op, res) == [w |-> w, op |-> op, res |-> res, pre |-> cache]

\* ----------------------------------------------- System_Settings_Manager

\* the content of the row as thread w reads it: what w saved in its open
\* transaction, else the committed content
Visible(w) == IF pending[w] # << >> THEN pending[w][1] ELSE store

\* the row is locked against thread w: another thread has written it in a
\* transaction that is still open, so a write of w waits for that thread
RowLocked(w) == \E x \in Workers \ {w} : pending[x] # << >>

\* super().get() on thread w: the row as a new instance, or the store's error
super_get(w) ==
    IF dbState = "ok"
    THEN Result("none", Instance(Visible(w), w, seq[w]), TRUE)
    ELSE Result(dbState, NoObj, TRUE)

\* a variant of the except clause that catches the missing row only
ExceptCatchesNotFound(e) == e = "RecordNotFound"

\* a variant of the except clause that catches the two store errors only
ExceptCatchesStoreErrors(e) == e \in {"StoreUnavailable", "RecordNotFound"}

\* the bare "except:" of get_from_db catches every error class
ExceptCatches(e) == TRUE

\* a variant of get_from_db without the try/except
get_from_db_raises(w) == super_get(w)

\* get_from_db: the row, or System_Settings() when the fetch raised
get_from_db(w) ==
    LET from_db == super_get(w)
    IN  IF from_db.exc # "none" /\ ExceptCatches(from_db.exc)
        THEN Result("none", Instance(DefaultVal, w, seq[w]), TRUE)
        ELSE from_db

\* get_system_settings: the thread's attribute if it is set, else None
get_system_settings(w) == cache[w]

\* "if not from_cache": None is falsy, a model instance is truthy
Truthy(obj) == obj # NoObj

\* a variant of get that queries the store on every call
get_always_from_db(w, no_cache) == get_from_db(w)

\* a variant of get that looks into the cache whatever no_cache says
get_cache_first(w, no_cache) ==
    IF cache[w] # NoObj
    THEN Result("none", cache[w], FALSE)
    ELSE get_from_db(w)

\* a variant of get whose cache is one slot shared by all threads
get_shared(w, no_cache) ==
    IF no_cache
    THEN get_from_db(w)
    ELSE IF \E x \in Workers : cache[x] # NoObj
         THEN Result("none", cache[CHOOSE x \in Workers : cache[x] # NoObj], FALSE)
         ELSE get_from_db(w)

\* System_Settings_Manager.get
get(w, no_cache) ==
    IF no_cache
    THEN get_from_db(w)
    ELSE LET from_cache == get_system_settings(w)
         IN  IF ~Truthy(from_cache)
             THEN get_from_db(w)
             ELSE Result("none", from_cache, FALSE)

\* ------------------------------------------- DojoSytemSettingsMiddleware

\* a variant of cleanup that leaves the thread's attribute in place
cleanup_keeps(w) == cache

\* cleanup: delete the thread's attribute if it is set
cleanup(w) == [cache EXCEPT ![w] = NoObj]

\* a variant of cleanup without the hasattr guard: del of an attribute
\* that is not set raises
cleanup_exc_unguarded(w) ==
    IF cache[w] # NoObj THEN "none" ELSE "AttributeError"

\* what cleanup raises ("none": it returns): the del runs only behind
\* "if hasattr(...)", so it finds the attribute, and otherwise nothing runs
cleanup_exc(w) ==
    IF cache[w] # NoObj THEN "none" ELSE "none"

\* a variant of post_save in which the signal is not connected to cleanup
post_save_unconnected(w) == cache

\* a variant of post_save that drops the entry of every thread
post_save_broadcast(w) == [x \in Workers |-> NoObj]

\* post_save of System_Settings, connected in __init__: a save that
\* succeeded on thread w calls cleanup on thread w
post_save(w) == cleanup(w)

\* a variant of load that fetches and does not assign the thread's attribute
load_no_store(w, res) == cache

\* a variant of load that does not keep a default instance
load_skips_default(w, res) ==
    IF res.exc = "none" /\ res.obj.val # DefaultVal
    THEN [cache EXCEPT ![w] = res.obj]
    ELSE cache

\* load: the thread's attribute after "system_settings = get(no_cache=True)"
\* and the assignment; an error raised by get leaves the attribute alone
load(w, res) ==
    IF res.exc = "none" THEN [cache EXCEPT ![w] = res.obj] ELSE cache

\* ------------------------------------------------ LoginRequiredMiddleware
\* A string is a sequence of tokens.  No token is a prefix of another, so one
\* string is a prefix of another exactly if its tokens are.
Tokens == {"/", "login", "logout", "change_password", "x"}
Strings == UNION {[1..k -> Tokens] : k \in 0..MaxLen}

\* request.path_info: it starts with a slash
PathInfos == {s \in Strings : Len(s) >= 1 /\ s[1] = "/"}

\* settings.LOGIN_URL
LOGIN_URL == <<"/", "login">>

\* str.lstrip("/"): the string without its leading slashes
RECURSIVE lstrip(_)
lstrip(s) == IF s # << >> /\ s[1] = "/" THEN lstrip(Tail(s)) ELSE s

\* a compiled regular expression: the text lit, followed by "$" if end
Pattern(lit, end) == [lit |-> lit, end |-> end]

\* re.compile(expr) of a string without special characters: the text itself,
\* not anchored at its end
re_compile(expr) == Pattern(expr, FALSE)

\* m.match(path): the expression matches at the start of path; text after
\* the match is allowed unless the expression ends with "$"
match(m, path) ==
    /\ Len(m.lit) <= Len(path)
    /\ SubSeq(path, 1, Len(m.lit)) = m.lit
    /\ m.end => Len(path) = Len(m.lit)

\* values of settings.LOGIN_EXEMPT_URLS: none, "x$", "x/"
ExemptSettings ==
    {<< >>, <<Pattern(<<"x">>, TRUE)>>, <<Pattern(<<"x", "/">>, FALSE)>>}

\* EXEMPT_URLS: LOGIN_URL without its leading slash, compiled, then the
\* configured expressions
EXEMPT_URLS(exempt) == <<re_compile(lstrip(LOGIN_URL))>> \o exempt

\* any(m.match(path) for m in EXEMPT_URLS)
AnyMatch(ms, path) == \E i \in 1..Len(ms) : match(ms[i], path)

\* a request: whether request.user exists, whether it is authenticated,
\* Dojo_User.force_password_reset(request.user), and request.path_info
Request(u, a, f, p) == [has_user |-> u, is_authenticated |-> a, force_reset |-> f, path_info |-> p]
Requests ==
    {Request(u, a, f, p) : u \in BOOLEAN, a \in BOOLEAN, f \in BOOLEAN, p \in PathInfos}
NoRequest == Request(FALSE, FALSE, FALSE, << >>)

\* what __call__ did: whether it called get_response, and what it returned
\* or raised; next is the "next" parameter of a redirect to LOGIN_URL
Outcome(c, kind, to, next) == [called |-> c, kind |-> kind, to |-> to, next |-> next]
NoOutcome == Outcome(FALSE, "none", << >>, << >>)

\* urllib.parse.quote(s): letters, "_" and "/" are not escaped, and the tokens
\* hold no other character
quote(s) == s

\* LoginRequiredMiddleware.__call__
LoginRequired(exempt, request) ==
    LET path == lstrip(request.path_info)
    IN  IF ~request.has_user
        THEN Outcome(FALSE, "AttributeError", << >>, << >>)
        ELSE IF ~request.is_authenticated /\ ~AnyMatch(EXEMPT_URLS(exempt), path)
        THEN Outcome(FALSE, "redirect", LOGIN_URL,
                     IF path = <<"logout">> THEN <<"/">> ELSE quote(request.path_info))
        ELSE IF /\ request.is_authenticated
                /\ request.force_reset
                /\ path # <<"change_password">>
        THEN Outcome(FALSE, "redirect", <<"/", "change_password">>, << >>)
        ELSE Outcome(TRUE, "response", << >>, << >>)

NoLogin == [exempt |-> << >>, pc |-> "idle", request |-> NoRequest, outcome |-> NoOutcome]

\* ---------------------------------------------------------------- Init
Init ==
    /\ store \in Vals
    /\ pending = [w \in Workers |-> << >>]
    /\ dbState \in DbStates
    /\ cache = [w \in Workers |-> NoObj]
    /\ pc = [w \in Workers |-> "idle"]
    /\ seq = [w \in Workers |-> 0]
    /\ unit = [w \in Workers |-> NoUnit]
    /\ last = Op(NoWorker, "init", NoRes)
    /\ login = NoLogin

\* -------------------------------------------------------------- actions

\* __call__, line 85: self.load(), then get_response is entered
CallLoad(w) ==
    /\ pc[w] = "idle"
    /\ pending[w] = << >>
    /\ LET res == get(w, TRUE)
       IN  /\ cache' = load(w, res)
           /\ pc' = [pc EXCEPT ![w] = IF res.exc = "none" THEN "handler" ELSE "idle"]
           /\ unit' = [unit EXCEPT ![w] =
                        [loads |-> 1, ends |-> 0, excs |-> 0, wrote |-> FALSE,
                         loadObj |-> res.obj]]
           /\ last' = Op(w, "load", res)
    /\ UNCHANGED <<store, pending, dbState, seq, login>>

\* a variant of the call in which a get(no_cache=False) that finds no entry
\* keeps what it fetched as the thread's entry
Get_populates(w, no_cache) ==
    /\ last' = Op(w, IF no_cache THEN "get_no_cache" ELSE "get", get(w, no_cache))
    /\ cache' = IF ~no_cache /\ cache[w] = NoObj
                THEN [cache EXCEPT ![w] = get(w, no_cache).obj]
                ELSE cache
    /\ UNCHANGED <<store, pending, dbState, pc, seq, unit, login>>

\* a variant of the call in which, inside a request, a get(no_cache=False)
\* that finds no entry re-creates the entry from its fetch
Get_recreates(w, no_cache) ==
    /\ last' = Op(w, IF no_cache THEN "get_no_cache" ELSE "get", get(w, no_cache))
    /\ cache' = IF ~no_cache /\ cache[w] = NoObj /\ pc[w] = "handler"
                THEN [cache EXCEPT ![w] = get(w, no_cache).obj]
                ELSE cache
    /\ UNCHANGED <<store, pending, dbState, pc, seq, unit, login>>

\* System_Settings.objects.get(no_cache=...) called on thread w, inside a
\* request or outside any (a command, a task)
Get(w, no_cache) ==
    /\ last' = Op(w, IF no_cache THEN "get_no_cache" ELSE "get", get(w, no_cache))
    /\ UNCHANGED <<store, pending, dbState, cache, pc, seq, unit, login>>

\* a save() of the record on thread w, outside any transaction, that
\* succeeds: the row is committed and post_save calls cleanup
Write(w, v) ==
    /\ dbState \in {"ok", "RecordNotFound"}
    /\ pending[w] = << >>
    /\ ~RowLocked(w)
    /\ store' = v
    /\ dbState' = "ok"
    /\ cache' = post_save(w)
    /\ unit' = [unit EXCEPT ![w].wrote = (pc[w] = "handler")]
    /\ last' = Op(w, "write", Result(cleanup_exc(w), NoObj, FALSE))
    /\ UNCHANGED <<pending, pc, seq, login>>

\* a variant of the save in a transaction in which the receiver is deferred
\* to the commit of the transaction: nothing is cleared when save() returns
WriteInTxn_on_commit(w, v) ==
    /\ dbState = "ok"
    /\ pc[w] = "handler"
    /\ ~RowLocked(w)
    /\ pending' = [pending EXCEPT ![w] = <<v>>]
    /\ unit' = [unit EXCEPT ![w].wrote = TRUE]
    /\ last' = Op(w, "write_txn", NoRes)
    /\ UNCHANGED <<store, dbState, cache, pc, seq, login>>

\* a save() of the record on thread w inside a transaction of the request
\* handler: the row is written but not committed; post_save is sent when
\* save() returns and calls cleanup
WriteInTxn(w, v) ==
    /\ dbState = "ok"
    /\ pc[w] = "handler"
    /\ ~RowLocked(w)
    /\ pending' = [pending EXCEPT ![w] = <<v>>]
    /\ cache' = post_save(w)
    /\ unit' = [unit EXCEPT ![w].wrote = TRUE]
    /\ last' = Op(w, "write_txn", Result(cleanup_exc(w), NoObj, FALSE))
    /\ UNCHANGED <<store, dbState, pc, seq, login>>

\* the open transaction of thread w commits what it saved
Commit(w) ==
    /\ pending[w] # << >>
    /\ dbState = "ok"
    /\ store' = pending[w][1]
    /\ pending' = [pending EXCEPT ![w] = << >>]
    /\ last' = Op(w, "commit", NoRes)
    /\ UNCHANGED <<dbState, cache, pc, seq, unit, login>>

\* the open transaction of thread w is rolled back: what it saved is gone
Rollback(w) ==
    /\ pending[w] # << >>
    /\ pending' = [pending EXCEPT ![w] = << >>]
    /\ last' = Op(w, "rollback", NoRes)
    /\ UNCHANGED <<store, dbState, cache, pc, seq, unit, login>>

\* a save() on thread w that raises: nothing is stored, post_save is not sent
WriteFail(w, e) ==
    /\ e = "StoreUnavailable" => dbState = "StoreUnavailable"
    /\ last' = Op(w, "write_fail", Result(e, NoObj, FALSE))
    /\ UNCHANGED <<store, pending, dbState, cache, pc, seq, unit, login>>

\* the view raised: the framework calls process_exception, once per request
ProcessException(w) ==
    /\ pc[w] = "handler"
    /\ pending[w] = << >>
    /\ unit[w].excs = 0
    /\ cache' = cleanup(w)
    /\ unit' = [unit EXCEPT ![w].excs = @ + 1]
    /\ last' = Op(w, "process_exception", Result(cleanup_exc(w), NoObj, FALSE))
    /\ UNCHANGED <<store, pending, dbState, pc, seq, login>>

\* a variant of __call__ that runs cleanup only if the view did not raise
CallCleanupOnSuccessOnly(w) ==
    /\ pc[w] = "handler"
    /\ pending[w] = << >>
    /\ cache' = IF unit[w].excs = 0 THEN cleanup(w) ELSE cache
    /\ pc' = [pc EXCEPT ![w] = "idle"]
    /\ unit' = [unit EXCEPT ![w].ends = IF unit[w].excs = 0 THEN @ + 1 ELSE @,
                            ![w].loadObj = NoObj, ![w].wrote = FALSE]
    /\ seq' = [seq EXCEPT ![w] = 1 - @]
    /\ last' = Op(w, "cleanup", NoRes)
    /\ UNCHANGED <<store, pending, dbState, login>>

\* __call__, lines 86-88: get_response returned; self.cleanup(); return
CallCleanup(w) ==
    /\ pc[w] = "handler"
    /\ pending[w] = << >>
    /\ cache' = cleanup(w)
    /\ pc' = [pc EXCEPT ![w] = "idle"]
    /\ unit' = [unit EXCEPT ![w].ends = @ + 1, ![w].loadObj = NoObj,
                            ![w].wrote = FALSE]
    /\ seq' = [seq EXCEPT ![w] = 1 - @]
    /\ last' = Op(w, "cleanup", Result(cleanup_exc(w), NoObj, FALSE))
    /\ UNCHANGED <<store, pending, dbState, login>>

\* the store becomes unavailable, loses its row, breaks, or recovers
SetDb(s) ==
    /\ s # dbState
    /\ dbState' = s
    /\ last' = Op(NoWorker, "setdb", NoRes)
    /\ UNCHANGED <<store, pending, cache, pc, seq, unit, login>>

Next ==
    \/ \E w \in Workers : CallLoad(w)
    \/ \E w \in Workers, nc \in BOOLEAN : Get(w, nc)
    \/ \E w \in Workers, v \in Vals : Write(w, v)
    \/ \E w \in Workers, e \in WriteErrors : WriteFail(w, e)
    \/ \E w \in Workers, v \in Vals : WriteInTxn(w, v)
    \/ \E w \in Workers : Commit(w)
    \/ \E w \in Workers : Rollback(w)
    \/ \E w \in Workers : ProcessException(w)
    \/ \E w \in Workers : CallCleanup(w)
    \/ \E s \in DbStates : SetDb(s)

Spec == Init /\ [][Next]_vars

\* the cache variables, which LoginRequiredMiddleware does not touch
cacheVars == <<store, pending, dbState, cache, pc, seq, unit, last>>

InitLogin ==
    /\ store = 1
    /\ pending = [w \in Workers |-> << >>]
    /\ dbState = "ok"
    /\ cache = [w \in Workers |-> NoObj]
    /\ pc = [w \in Workers |-> "idle"]
    /\ seq = [w \in Workers |-> 0]
    /\ unit = [w \in Workers |-> NoUnit]
    /\ last = Op(NoWorker, "init", NoRes)
    /\ \E exempt \in ExemptSettings : login = [NoLogin EXCEPT !.exempt = exempt]

\* a request reaches the middleware
LoginRequest(request) ==
    /\ login.pc = "idle"
    /\ login' = [login EXCEPT !.pc = "call", !.request = request,
                              !.outcome = NoOutcome]
    /\ UNCHANGED cacheVars

\* LoginRequiredMiddleware.__call__ handles the request
LoginCall ==
    /\ login.pc = "call"
    /\ login' = [login EXCEPT !.pc = "idle",
                              !.outcome = LoginRequired(login.exempt, login.request)]
    /\ UNCHANGED cacheVars

NextLogin ==
    \/ \E request \in Requests : LoginRequest(request)
    \/ LoginCall

SpecLogin == InitLogin /\ [][NextLogin]_vars

\* ------------------------------------------------------------ properties
\* thread w is inside __call__, between load and the cleanup of line 87
InRequest(w) == pc[w] = "handler"

\* thread w is inside a unit of work: a request has started on it (onStart)
\* and neither of the hooks that end the scope (process_exception,
\* onFailure; the cleanup of __call__, onSuccess) has run yet
InUnit(w) == InRequest(w) /\ unit[w].excs = 0

\* the last step was a get(no_cache=False) on thread w
CachedGet(w) == last.w = w /\ last.op = "get"

\* what a fetch on thread w returns in the current state of the store
FetchedNow(w) ==
    Instance(IF dbState = "ok" THEN Visible(w) ELSE DefaultVal, w, seq[w])

C2_AsStated ==
    \A w \in Workers :
        CachedGet(w) /\ InRequest(w) /\ unit[w].wrote
            => last.res.exc = "none" /\ last.res.obj.val = store

\* C2 amended. After a save by thread w that succeeded in a request, a
\* get(no_cache=False) on w in the same request queries the store again and
\* returns what that fetch gives: the content of the store if the fetch
\* succeeds, a default instance if it fails; never the instance cached
\* before the save.
C2_ReadAfterWriteRefetches ==
    \A w \in Workers :
        CachedGet(w) /\ InRequest(w) /\ unit[w].wrote
            => last.res = Result("none", FetchedNow(w), TRUE)

\* a read after a save that returns the saved content, not the loaded one
C2_Witness ==
    \E w \in Workers :
        /\ CachedGet(w) /\ InUnit(w) /\ unit[w].wrote
        /\ last.res.fetched /\ last.res.obj.val = store
        /\ unit[w].loadObj.val \in Vals /\ unit[w].loadObj.val # store

\* C3. In every request on thread w, load queries the store and makes its
\* result the thread's entry, and no get(no_cache=False) of the request
\* returns an instance fetched by another thread or during an earlier
\* request of w.
C3_NoValueFromEarlierUnit ==
    \A w \in Workers :
        /\ last.w = w /\ last.op = "load"
              => /\ last.res = Result("none", FetchedNow(w), TRUE)
                 /\ cache[w] = last.res.obj
        /\ CachedGet(w) /\ InRequest(w)
              => last.res.obj.by = w /\ last.res.obj.unit = seq[w]

\* a read served from the cache in a second request of a thread
C3_Witness ==
    \E w \in Workers :
        /\ CachedGet(w) /\ InUnit(w) /\ seq[w] >= 1
        /\ ~last.res.fetched /\ last.res.obj = cache[w]
        /\ last.res.obj.unit = seq[w]

\* C4. A thread that is not inside a unit of work (no request yet, or the
\* request ended or its view raised) has no entry.
C4_NoEntryOutsideUnit ==
    \A w \in Workers : ~InUnit(w) => cache[w] = NoObj

\* a request whose view raised has ended: the thread is idle, without entry
C4_Witness ==
    \E w \in Workers :
        /\ pc[w] = "idle" /\ seq[w] >= 1 /\ unit[w].excs = 1
        /\ last.w = w /\ last.op = "cleanup"
        /\ cache[w] = NoObj

\* C5 as stated. In every request load runs once, and the entry is cleared
\* at the end of the request by exactly one of the cleanup of __call__ and
\* process_exception.
C5_AsStated ==
    \A w \in Workers :
        /\ InRequest(w) => unit[w].loads = 1
        /\ pc[w] = "idle" /\ unit[w].loads = 1
              => unit[w].ends + unit[w].excs = 1

\* C5 amended. In every request load runs once and the cleanup of __call__
\* runs once, when get_response has returned; if the view raised,
\* process_exception has run cleanup before that as well: the entry is
\* cleared once or twice by the hooks, never not at all.
C5_LoadOnceCleanupAtLeastOnce ==
    \A w \in Workers :
        /\ InRequest(w) => unit[w].loads = 1 /\ unit[w].ends = 0
        /\ pc[w] = "idle" /\ unit[w].loads = 1
              => unit[w].ends = 1 /\ unit[w].excs \in {0, 1}
        /\ last.w = w /\ last.op \in {"cleanup", "process_exception"}
              => cache[w] = NoObj

\* a request in which the view raised has ended: both hooks cleared
C5_Witness ==
    \E w \in Workers :
        /\ pc[w] = "idle" /\ unit[w].loads = 1
        /\ unit[w].ends = 1 /\ unit[w].excs = 1
        /\ last.w = w /\ last.op = "cleanup"

\* C6. get(no_cache=True) queries the store and returns what the fetch
\* gives, whether or not the thread has an entry, and leaves every entry as
\* it was.
C6_NoCacheBypassesCache ==
    \A w \in Workers :
        last.w = w /\ last.op = "get_no_cache"
            => /\ last.res = Result("none", FetchedNow(w), TRUE)
               /\ cache = last.pre

\* get(no_cache=True) with an entry present that differs from the store
C6_Witness ==
    \E w \in Workers :
        /\ last.w = w /\ last.op = "get_no_cache"
        /\ cache[w] # NoObj /\ cache[w].val # last.res.obj.val
        /\ last.res.obj.val = store /\ dbState = "ok"

C8_AsStated ==
    \A w \in Workers :
        last.w = w /\ last.op = "load" /\ dbState # "ok"
            => cache[w] = NoObj

\* C8 amended. A load whose fetch fails makes the default instance the
\* thread's entry, and the get(no_cache=False) calls of the request return
\* that instance without querying the store, until a save or
\* process_exception clears it.
C8_FailedLoadCachesDefault ==
    \A w \in Workers :
        /\ last.w = w /\ last.op = "load" /\ dbState # "ok"
              => /\ cache[w] = Instance(DefaultVal, w, seq[w])
                 /\ unit[w].loadObj = cache[w]
        /\ CachedGet(w) /\ InUnit(w) /\ unit[w].loadObj.val = DefaultVal
             /\ ~unit[w].wrote
              => last.res = Result("none", unit[w].loadObj, FALSE)

\* after a failed load the store recovered and a read still gets the default
C8_Witness ==
    \E w \in Workers :
        /\ CachedGet(w) /\ InUnit(w) /\ unit[w].loadObj.val = DefaultVal
        /\ dbState = "ok"
        /\ last.res = Result("none", cache[w], FALSE)
        /\ last.res.obj.val = DefaultVal

\* C9. A get that queries the store while the fetch fails, for any of the
\* errors, returns a default instance and raises nothing.
C9_GetNeverRaises ==
    \A w \in Workers :
        last.w = w /\ last.op \in {"get", "get_no_cache"}
            => /\ last.res.exc = "none"
               /\ last.res.fetched /\ dbState # "ok"
                     => last.res.obj = Instance(DefaultVal, w, seq[w])

\* a get(no_cache=False) without an entry while the store is unavailable
C9_Witness ==
    \E w \in Workers :
        /\ CachedGet(w) /\ cache[w] = NoObj
        /\ dbState = "StoreUnavailable"
        /\ last.res = Result("none", Instance(DefaultVal, w, seq[w]), TRUE)

\* C10. load never raises and get_response is entered after it; in a
\* request whose load failed, every get(no_cache=False) returns an
\* instance, a default one while the store is unavailable.
C10_FailedLoadDoesNotFailUnit ==
    \A w \in Workers :
        /\ last.w = w /\ last.op = "load"
              => last.res.exc = "none" /\ InRequest(w)
        /\ CachedGet(w) /\ InRequest(w) /\ unit[w].loadObj.val = DefaultVal
              => /\ last.res.exc = "none" /\ last.res.obj # NoObj
                 /\ dbState = "StoreUnavailable"
                       => last.res.obj.val = DefaultVal

\* the handler runs after a failed load and reads while the store is
\* unavailable
C10_Witness ==
    \E w \in Workers :
        /\ CachedGet(w) /\ InRequest(w)
        /\ unit[w].loadObj.val = DefaultVal
        /\ dbState = "StoreUnavailable"
        /\ last.res.exc = "none" /\ last.res.obj.val = DefaultVal

\* C11. A get(no_cache=False) on a thread without an entry queries the
\* store, returns what the fetch gives and leaves the thread without an
\* entry, inside a request and outside any.
C11_MissDoesNotPopulate ==
    \A w \in Workers :
        CachedGet(w) /\ last.pre[w] = NoObj
            => /\ last.res = Result("none", FetchedNow(w), TRUE)
               /\ cache = last.pre
               /\ cache[w] = NoObj

\* a get(no_cache=False) outside any request that fetched the row
C11_Witness ==
    \E w \in Workers :
        /\ CachedGet(w) /\ pc[w] = "idle" /\ seq[w] >= 1
        /\ last.res.fetched /\ last.res.obj.val = store /\ dbState = "ok"
        /\ cache[w] = NoObj

\* C12 as stated. Invalidation is triggered only by durably committed writes:
\* a save that raises, a save in a transaction that has not committed, and the
\* rollback of such a transaction leave every entry, the writer's included, as
\* it was.
C12_AsStated ==
    last.op \in {"write_fail", "write_txn", "rollback"} => cache = last.pre

\* C12, amended. Invalidation follows post_save, which is sent when save()
\* returns: a save that raises clears nothing and its error reaches the
\* caller; a save inside a transaction clears the writer's entry, and only
\* that one, before the transaction ends; so while the transaction is open,
\* and after it is rolled back, the writer's entry is already gone.
C12_InvalidationFollowsPostSave ==
    /\ last.op = "write_fail" => cache = last.pre /\ last.res.exc \in WriteErrors
    /\ last.op = "write_txn"
         => cache = [last.pre EXCEPT ![last.w] = NoObj] /\ last.res.exc = "none"
    /\ last.op = "rollback" => cache = last.pre /\ cache[last.w] = NoObj
    /\ \A w \in Workers : pending[w] # << >> => cache[w] = NoObj

\* a transaction of thread w, in a request whose load cached the row, was
\* rolled back: the store still holds the loaded content, the entry is gone
C12_Witness ==
    \E w \in Workers :
        /\ last.w = w /\ last.op = "rollback" /\ InUnit(w)
        /\ unit[w].loadObj # NoObj /\ unit[w].loadObj.val = store
        /\ last.pre[w] = NoObj /\ cache[w] = NoObj

\* the middleware has handled a request of a user who is not authenticated
UnauthenticatedHandled ==
    /\ login.pc = "idle" /\ login.request # NoRequest
    /\ login.request.has_user /\ ~login.request.is_authenticated

\* a string without its leading and its trailing slashes
RECURSIVE Trimmed(_)
Trimmed(s) ==
    IF s # << >> /\ s[Len(s)] = "/" THEN Trimmed(SubSeq(s, 1, Len(s) - 1)) ELSE lstrip(s)

\* C13 as stated. An unauthenticated request reaches the downstream handler
\* only if its path is LOGIN_URL itself (leading and trailing slashes apart)
\* or matches a configured LOGIN_EXEMPT_URLS expression; every other
\* unauthenticated request is answered with a redirect to LOGIN_URL and
\* get_response is not called.
C13_AsStated ==
    UnauthenticatedHandled
        => IF \/ Trimmed(login.request.path_info) = Trimmed(LOGIN_URL)
              \/ AnyMatch(login.exempt, lstrip(login.request.path_info))
           THEN login.outcome.called
           ELSE /\ ~login.outcome.called
                /\ login.outcome.kind = "redirect"
                /\ login.outcome.to = LOGIN_URL

\* C14 as stated. After a save cleared the entry of thread w inside a
\* request, the first get(no_cache=False) on w makes what it fetched the
\* thread's entry again.
C14_AsStated ==
    \A w \in Workers :
        CachedGet(w) /\ InRequest(w) /\ unit[w].wrote /\ last.res.fetched
            => cache[w] = last.res.obj

\* C14 amended. After a save cleared the entry of thread w inside a
\* request, no get re-creates it: the thread has no entry for the rest of
\* the request and every get(no_cache=False) of it queries the store.
C14_NoLazyRecreation ==
    \A w \in Workers :
        InRequest(w) /\ unit[w].wrote
            => /\ cache[w] = NoObj
               /\ CachedGet(w) => last.res.fetched
               /\ CachedGet(w) => last.pre[w] = NoObj

\* a second get(no_cache=False) in a row after a save, which fetches again
C14_Witness ==
    \E w \in Workers :
        /\ CachedGet(w) /\ InUnit(w) /\ unit[w].wrote
        /\ last.res.fetched /\ last.pre[w] = NoObj /\ cache[w] = NoObj
        /\ last.res.obj.val = store /\ dbState = "ok"

\* C15 as stated. A fetch that fails with an error other than
\* StoreUnavailable and RecordNotFound makes get raise that error.
C15_AsStated ==
    \A w \in Workers :
        /\ last.w = w /\ last.op \in {"get", "get_no_cache"}
        /\ last.res.fetched /\ dbState = "OtherError"
        => last.res.exc = "OtherError"

\* C15 amended. A fetch that fails with any error, StoreUnavailable,
\* RecordNotFound or any other class, makes get return a default instance;
\* get raises nothing.
C15_EveryErrorGivesDefault ==
    \A w \in Workers :
        /\ last.w = w /\ last.op \in {"get", "get_no_cache"}
        /\ last.res.fetched /\ dbState \in FetchErrors
        => last.res = Result("none", Instance(DefaultVal, w, seq[w]), TRUE)

\* a get(no_cache=True) while the fetch fails with another error class
C15_Witness ==
    \E w \in Workers :
        /\ last.w = w /\ last.op = "get_no_cache"
        /\ dbState = "OtherError"
        /\ last.res.exc = "none" /\ last.res.obj.val = DefaultVal

\* C16. Every call of cleanup (by post_save after a save, by
\* process_exception, by __call__ at the end of the request) raises
\* nothing and leaves the calling thread without an entry and every other
\* entry as it was; called on a thread without an entry it changes nothing.
C16_ClearIdempotent ==
    \A w \in Workers :
        last.w = w /\ last.op \in {"write", "process_exception", "cleanup"}
            => /\ last.res.exc = "none"
               /\ cache = [last.pre EXCEPT ![w] = NoObj]
               /\ last.pre[w] = NoObj => cache = last.pre

\* process_exception after a save in the same request: a clear of an entry
\* that is already absent
C16_Witness ==
    \E w \in Workers :
        /\ last.w = w /\ last.op = "process_exception"
        /\ unit[w].wrote /\ last.pre[w] = NoObj
        /\ cache = last.pre /\ last.res.exc = "none"

\* every instance a get(no_cache=False) returns inside a request was
\* fetched by the same thread since that request started: it is the one
\* load fetched, or one the get fetched itself
FetchedInThisRequest(w) ==
    CachedGet(w) /\ InRequest(w)
        => /\ last.res.obj.by = w /\ last.res.obj.unit = seq[w]
           /\ ~last.res.fetched => last.res.obj = unit[w].loadObj
           /\ last.res.fetched => last.res.obj = FetchedNow(w)

\* C17 as stated. Every instance a get(no_cache=False) returns inside a
\* request was fetched since that request started, and the fetch of load,
\* which the cached reads of the request return, gives the content the
\* store holds when the request starts.
C17_AsStated ==
    \A w \in Workers :
        /\ FetchedInThisRequest(w)
        /\ last.w = w /\ last.op = "load" => cache[w].val = store

\* C17 amended. Every instance a get(no_cache=False) returns inside a
\* request was fetched since that request started; the fetch of load gives
\* the content the store holds when the request starts if it succeeds, and
\* a default instance, which the cached reads then return, if it fails.
C17_BoundedStaleness ==
    \A w \in Workers :
        /\ FetchedInThisRequest(w)
        /\ last.w = w /\ last.op = "load"
              => /\ cache[w] = unit[w].loadObj
                 /\ dbState = "ok" => cache[w].val = store
                 /\ dbState # "ok" => cache[w].val = DefaultVal

\* a cached read in a second request of a thread returns the content
\* another thread saved before that request started
C17_Witness ==
    \E w \in Workers :
        /\ CachedGet(w) /\ InUnit(w) /\ seq[w] >= 1 /\ ~unit[w].wrote
        /\ ~last.res.fetched /\ last.res.obj.unit = seq[w]
        /\ last.res.obj.val = store /\ dbState = "ok"

====
